---------------------------- MODULE Spec2Model ----------------------------
(***************************************************************************)
(* A model of the Shopify connector of ecommerce_integrations:             *)
(*   - the three paginated customer fetchers (connection.py,               *)
(*     shopify_requests.py, sync_customers.py),                            *)
(*   - the batch upsert of sync_customers.sync_all_customers,              *)
(*   - the webhook registrar (connection.register_webhooks,                *)
(*     unregister_webhooks, ShopifySetting._handle_webhooks),              *)
(*   - the inbound webhook endpoint (connection.store_request_data),       *)
(*   - the session decorator (connection.temp_shopify_session).            *)
(* Strings the code only copies are kept as TLA+ strings; "" stands for a  *)
(* missing or None value (both are falsy in the Python source).  Strings   *)
(* the code takes apart (domains, callback addresses) are sequences of     *)
(* tokens, so that Python's substring test is a computation.               *)
(***************************************************************************)
EXTENDS Integers, Sequences, FiniteSets, TLC

VARIABLES
    shop,       \* the remote list endpoint: its pages, link style, failing page
    fetch,      \* the running customer fetcher: function, position, locals
    run,        \* the batch loops of sync_all_customers, one per run
    concurrent, \* whether the two sync runs overlap
    Customer,   \* local Customer documents, in insertion order
    Address,    \* local Address documents
    Contact,    \* local Contact documents
    snap,       \* the local store as it was when the second run began
    errlog,     \* the Error Log entries frappe.log_error wrote
    faults,     \* how many injected failures (saves, HTTP requests) occurred
    conf,       \* frappe.conf and frappe.request.host of this deployment
    hooks,      \* the webhook subscriptions the remote holds
    hookSeq,    \* the last webhook id the remote handed out
    setting,    \* the stored Shopify Setting: enable_shopify, webhooks
    wh,         \* the running ShopifySetting.validate: position, locals
    secret,     \* Shopify Setting.shared_secret
    inbound,    \* the running store_request_data: position, request
    shoplog,    \* the log documents create_shopify_log made for requests
    queue,      \* the jobs frappe.enqueue put on the queue
    session     \* the running call of a temp_shopify_session wrapper

syncVars == <<shop, fetch, run, concurrent, Customer, Address, Contact, snap>>

hookVars == <<conf, hooks, hookSeq, setting, wh>>

inboundVars == <<secret, inbound, shoplog, queue>>

vars == <<syncVars, errlog, faults, hookVars, inboundVars, session>>

-----------------------------------------------------------------------------
(* Bounds of the model.                                                    *)

\* Records the remote list endpoint holds, at most.
MaxRemote == 3
\* Records per page, at most (CUSTOMER_LIMIT_PER_REQUEST = 250, scaled).
MaxPageLen == 2
\* Requests one fetch may send before the model stops following it.
MaxRequests == 5
\* Records one sync run processes in the upsert specification, at most.
MaxRecords == 2
\* Records each of two overlapping sync runs processes, at most.
MaxRaceRecords == 1
\* Records per batch (BATCH_SIZE = 1000, scaled).
BatchSize == 2
\* Injected failures (a save that raises, a request that is rejected).
MaxFaults == 1

Runs == {1, 2}

-----------------------------------------------------------------------------
(* Remote customer records, as the list endpoint returns them.             *)

CustA ==
    [id |-> 1, first_name |-> "Ann", last_name |-> "Lee", email |-> "ann@x",
     phone |-> "555",
     addresses |-> <<[id |-> 10, default |-> TRUE, phone |-> "555"],
                     [id |-> 11, default |-> FALSE, phone |-> ""]>>]

\* Shares its phone and one address id with CustA; has no name parts.
CustB ==
    [id |-> 2, first_name |-> "", last_name |-> "", email |-> "bob@x",
     phone |-> "555",
     addresses |-> <<[id |-> 10, default |-> FALSE, phone |-> ""]>>]

\* No phone, no email, no address.
CustC ==
    [id |-> 3, first_name |-> "Cy", last_name |-> "", email |-> "",
     phone |-> "", addresses |-> <<>>]

\* Shares its phone with CustA and CustB; has no email and no address.
CustD ==
    [id |-> 4, first_name |-> "Dee", last_name |-> "", email |-> "",
     phone |-> "555", addresses |-> <<>>]

RecordPool == <<CustA, CustB, CustC, CustD>>

PoolAt(i) == RecordPool[((i - 1) % Len(RecordPool)) + 1]

\* The remote's customers, in the order the endpoint lists them.  Beyond the
\* pool the records repeat with fresh ids.
RemoteRecord(i) == [PoolAt(i) EXCEPT !.id = i]

RemoteList(n) == [i \in 1..n |-> RemoteRecord(i)]

-----------------------------------------------------------------------------
(* The remote list endpoint.                                               *)

RECURSIVE Flatten(_)
Flatten(pages) ==
    IF pages = <<>> THEN <<>> ELSE Head(pages) \o Flatten(Tail(pages))

\* The ways to cut the list 1..n into consecutive pages of 1..MaxPageLen
\* records, as sequences of page lengths.
RECURSIVE Cuts(_)
Cuts(n) ==
    IF n = 0 THEN {<<>>}
    ELSE UNION { { <<k>> \o c : c \in Cuts(n - k) } :
                 k \in 1..(IF n < MaxPageLen THEN n ELSE MaxPageLen) }

RECURSIVE PagesOf(_, _)
PagesOf(list, cut) ==
    IF cut = <<>> THEN <<>>
    ELSE <<SubSeq(list, 1, Head(cut))>>
          \o PagesOf(SubSeq(list, Head(cut) + 1, Len(list)), Tail(cut))

\* A remote with no record serves one empty page.
ChainsOf(n) ==
    IF n = 0 THEN { << <<>> >> }
    ELSE { PagesOf(RemoteList(n), c) : c \in Cuts(n) }

\* failPage = 0: every page answers 200.  Otherwise the request for that page
\* answers 500 (failKind "status") or fails in transit (failKind "exception").
Shops ==
    { sh \in [pages : UNION { ChainsOf(n) : n \in 0..MaxRemote },
              pageInfoLinks : BOOLEAN,
              failPage : 0..MaxRemote,
              failKind : {"status", "exception"}] :
        /\ sh.failPage <= Len(sh.pages)
        /\ (sh.failPage = 0 => sh.failKind = "status") }

\* A URL of the list endpoint: the cursor parameters of its query string.
\* 0 stands for an absent parameter.
BaseUrl == [set |-> TRUE, page_info |-> 0, other |-> 0]
NoUrl == [set |-> FALSE, page_info |-> 0, other |-> 0]

\* The page a request for url is answered with.
Serve(url) ==
    IF url.page_info # 0 THEN url.page_info
    ELSE IF url.other # 0 THEN url.other
    ELSE 1

\* The URL the remote puts in a Link header for page j.
LinkUrl(j) ==
    IF shop.pageInfoLinks
    THEN [set |-> TRUE, page_info |-> j, other |-> 0]
    ELSE [set |-> TRUE, page_info |-> 0, other |-> j]

\* The Link header of page k: <prev>; rel="previous", <next>; rel="next".
LinkHeader(k) ==
    (IF k > 1 THEN <<[url |-> LinkUrl(k - 1), rel |-> "previous"]>> ELSE <<>>)
    \o (IF k < Len(shop.pages)
        THEN <<[url |-> LinkUrl(k + 1), rel |-> "next"]>> ELSE <<>>)

RequestRaises(k) == shop.failPage = k /\ shop.failKind = "exception"

StatusCode(k) == IF shop.failPage = k THEN 500 ELSE 200


-----------------------------------------------------------------------------
(* Link header parsing, one operator per fetcher.                          *)

IsNext(link) == link.rel = "next"

\* Mutant: every link of the header is taken for a rel="next" link.
NextLinksAnyRel(link_header) == link_header

NextLinks(link_header) == SelectSeq(link_header, IsNext)

\* connection.get_shopify_customers: the page_info of the first rel="next"
\* link, None (0) when there is no such link or its query has no page_info.
ConnNextPageInfo(link_header) ==
    IF NextLinks(link_header) = <<>> THEN 0
    ELSE NextLinks(link_header)[1].url.page_info

\* sync_all_customers: 'rel="next"' in link_header.
SyncHasNext(link_header) == NextLinks(link_header) # <<>>

\* sync_all_customers: query_params.get('page_info', [None])[0] of the first
\* rel="next" link.
SyncPageInfo(link_header) == NextLinks(link_header)[1].url.page_info

\* shopify_requests.get_next_page_url: the URL of the first rel="next" link.
GetNextPageUrl(link_header) ==
    IF NextLinks(link_header) = <<>> THEN NoUrl
    ELSE NextLinks(link_header)[1].url

\* Mutant: the cursor is not passed on to the request.
CursorUrlDropped(page_info) == [set |-> TRUE, page_info |-> 0, other |-> 0]

\* The URL connection.py and sync_customers.py request: the base URL with
\* params limit and, when the cursor is set, page_info.
CursorUrl(page_info) == [set |-> TRUE, page_info |-> page_info, other |-> 0]

-----------------------------------------------------------------------------
(* The fetchers.  One action is one iteration of the fetch loop: one HTTP   *)
(* request and the handling of its response.                                *)

\* Python's None, as the value of a call.
None == <<>>

IdleRun ==
    [pc |-> "idle", customers |-> <<>>, processed |-> 0, i |-> 0,
     existing |-> 0, doc |-> 0, ai |-> 0, aexisting |-> 0, cexisting |-> 0,
     passed |-> <<>>, failed |-> {}, commits |-> 0, result |-> None]

NewFetch(fn, configured) ==
    [fn |-> fn, pc |-> IF fn = "sync" THEN "start" ELSE "request",
     configured |-> configured, customers |-> <<>>, page_info |-> 0,
     url |-> BaseUrl, requested |-> <<>>]

IdleFetch == [NewFetch("none", TRUE) EXCEPT !.pc = "idle"]

Log(title, r, idx) == errlog \cup {<<title, r, idx>>}

\* connection.get_shopify_customers, lines 77-125.
ConnFetchStep ==
    /\ fetch.fn = "connection" /\ fetch.pc = "request"
    /\ Len(fetch.requested) < MaxRequests
    /\ LET k == Serve(CursorUrl(fetch.page_info))
           next == ConnNextPageInfo(LinkHeader(k))
       IN IF RequestRaises(k) \/ StatusCode(k) # 200
          THEN /\ fetch' = [fetch EXCEPT !.pc = "raised",
                                         !.requested = Append(@, k)]
               /\ errlog' = Log("Shopify Customer Fetch Error", 0, 0)
          ELSE /\ fetch' = [fetch EXCEPT
                                !.customers = @ \o shop.pages[k],
                                !.page_info = next,
                                !.requested = Append(@, k),
                                !.pc = IF next = 0 THEN "returned" ELSE "request"]
               /\ errlog' = errlog
    /\ UNCHANGED <<session, hookVars, inboundVars, shop, run, concurrent, Customer, Address, Contact, snap, faults>>

\* shopify_requests.get_shopify_customers, lines 17-27.
ReqFetchStep ==
    /\ fetch.fn = "requests" /\ fetch.pc = "request"
    /\ Len(fetch.requested) < MaxRequests
    /\ LET k == Serve(fetch.url)
           next == GetNextPageUrl(LinkHeader(k))
       IN IF RequestRaises(k) \/ StatusCode(k) # 200
          THEN fetch' = [fetch EXCEPT !.pc = "raised",
                                      !.requested = Append(@, k)]
          ELSE fetch' = [fetch EXCEPT
                            !.customers = @ \o shop.pages[k],
                            !.url = next,
                            !.requested = Append(@, k),
                            !.pc = IF next.set THEN "request" ELSE "returned"]
    /\ UNCHANGED <<session, hookVars, inboundVars, shop, run, concurrent, Customer, Address, Contact, snap,
                   errlog, faults>>

\* sync_all_customers, lines 19-45: the settings check.
SyncStart ==
    /\ fetch.fn = "sync" /\ fetch.pc = "start"
    /\ IF fetch.configured
       THEN /\ fetch' = [fetch EXCEPT !.pc = "request"]
            /\ errlog' = errlog
       ELSE /\ fetch' = [fetch EXCEPT !.pc = "returned"]
            /\ errlog' = Log("Shopify Configuration Error", 0, 0)
    /\ UNCHANGED <<session, hookVars, inboundVars, shop, run, concurrent, Customer, Address, Contact, snap, faults>>

\* sync_all_customers, lines 47-90, with get_shopify_customers, lines 108-130:
\* a request that fails in transit comes back as a status 500 response.
\* Leaving the loop hands the collected list to the batch loop.
SyncFetchStep ==
    /\ fetch.fn = "sync" /\ fetch.pc = "request"
    /\ Len(fetch.requested) < MaxRequests
    /\ LET k == Serve(CursorUrl(fetch.page_info))
           ok == ~RequestRaises(k) /\ StatusCode(k) = 200
           has_next_page == ok /\ SyncHasNext(LinkHeader(k))
           customers == IF ok THEN fetch.customers \o shop.pages[k]
                        ELSE fetch.customers
       IN /\ fetch' = [fetch EXCEPT
                          !.customers = customers,
                          !.page_info = IF has_next_page
                                        THEN SyncPageInfo(LinkHeader(k)) ELSE @,
                          !.requested = Append(@, k),
                          !.pc = IF has_next_page THEN "request" ELSE "process"]
          /\ errlog' = IF ok THEN errlog
                       ELSE IF RequestRaises(k)
                       THEN Log("Shopify API Request Exception", 0, 0)
                            \cup {<<"Shopify Customer Fetch Error", 0, 0>>}
                       ELSE Log("Shopify Customer Fetch Error", 0, 0)
          /\ run' = IF has_next_page THEN run
                    ELSE [run EXCEPT ![1] = [IdleRun EXCEPT
                                               !.pc = "batch",
                                               !.customers = customers]]
    /\ UNCHANGED <<session, hookVars, inboundVars, shop, concurrent, Customer, Address, Contact, snap, faults>>

-----------------------------------------------------------------------------
(* The local document store.  A document's name is its insertion index.    *)

\* str(customer_data.get('id')): the decimal text of the id.
Str(x) == <<"str", x>>

NonEmpty(s) == s # ""

\* (first_name + ' ' + last_name).strip() or email: the non-empty name parts,
\* or the email when there is none.
CustomerName(c) ==
    IF SelectSeq(<<c.first_name, c.last_name>>, NonEmpty) = <<>>
    THEN <<c.email>>
    ELSE SelectSeq(<<c.first_name, c.last_name>>, NonEmpty)

\* frappe.db.get_value(doctype, {field: value}, 'name'): the name of the first
\* of the matching documents, None (0) when there is none.
FirstMatch(names) ==
    IF names = {} THEN 0
    ELSE CHOOSE n \in names : \A m \in names : n <= m

LookupCustomer(id) ==
    FirstMatch({ n \in 1..Len(Customer) :
                   Customer[n].custom_shopify_customer_id = Str(id) })

LookupAddress(id) ==
    FirstMatch({ n \in 1..Len(Address) :
                   Address[n].shopify_address_id = Str(id) })

\* Mutant: the lookup by phone matches nothing.
LookupContactNever(phone) == 0

LookupContact(phone) ==
    FirstMatch({ n \in 1..Len(Contact) : Contact[n].phone = phone })

\* The custom fields custom_shopify_customer_id (Customer) and
\* shopify_address_id (Address) are created with unique=1: an insert of a
\* second document with the same value is rejected by the database.
\* Mutant: the Customer field has no unique index.
CustomerInsertUnchecked(id) == TRUE

CustomerInsertAllowed(id) ==
    \A n \in 1..Len(Customer) : Customer[n].custom_shopify_customer_id # Str(id)

AddressInsertAllowed(id) ==
    \A n \in 1..Len(Address) : Address[n].shopify_address_id # Str(id)

\* The fields create_or_update_customer sets (customer_type, customer_group
\* and territory are constants of the code and left out).
CustomerFields(c, name) ==
    [name |-> name,
     custom_shopify_customer_id |-> Str(c.id),
     customer_name |-> CustomerName(c),
     email_id |-> c.email,
     phone |-> c.phone]

\* address_fields of create_or_update_address (the street, city, state,
\* pincode and country fields are copied like phone and left out).
AddressFields(c, a, name, customer_doc) ==
    [name |-> name,
     shopify_address_id |-> Str(a.id),
     address_title |-> CustomerName(c),
     address_type |-> IF a.default THEN "Billing" ELSE "Shipping",
     phone |-> a.phone,
     email_id |-> c.email,
     links |-> <<[link_doctype |-> "Customer", link_name |-> customer_doc]>>]

\* contact_fields of handle_customer_contacts applied to the document old;
\* email_id is set only when the remote record has an email.
ContactFields(c, old) ==
    [old EXCEPT
        !.first_name = IF c.first_name # "" THEN <<c.first_name>>
                       ELSE CustomerName(c),
        !.last_name = c.last_name,
        !.phone = c.phone,
        !.email_id = IF c.email # "" THEN c.email ELSE @]

NewContact(name) ==
    [name |-> name, first_name |-> <<>>, last_name |-> "", phone |-> "",
     email_id |-> ""]

\* Whether a save may be made to raise by the environment.
FaultChoices == IF faults < MaxFaults THEN BOOLEAN ELSE {FALSE}

Bump(fault) == IF fault THEN faults + 1 ELSE faults

-----------------------------------------------------------------------------
(* The batch loop of sync_all_customers and the upsert of one record.  One *)
(* action is one database operation with the code around it.               *)

Min(a, b) == IF a < b THEN a ELSE b

Total(r) == Len(run[r].customers)

\* batch = customers[processed:processed + BATCH_SIZE]
BatchLen(r) == Min(BatchSize, Total(r) - run[r].processed)

\* The index in customers of the record the loop is at.
Idx(r) == run[r].processed + run[r].i

Cur(r) == run[r].customers[Idx(r)]

\* Mutant: the loop over the batch stops one record short.
AdvanceStopsShort(rec) ==
    IF rec.i < Min(BatchSize, Len(rec.customers) - rec.processed) - 1
    THEN [rec EXCEPT !.i = @ + 1, !.pc = "lookup"]
    ELSE [rec EXCEPT !.pc = "commit"]

\* The loop moves to the next record of the batch, or to the commit.
Advance(rec) ==
    IF rec.i < Min(BatchSize, Len(rec.customers) - rec.processed)
    THEN [rec EXCEPT !.i = @ + 1, !.pc = "lookup"]
    ELSE [rec EXCEPT !.pc = "commit"]

\* Mutant: the exception leaves the batch loop.
CaughtAborts(rec, idx) == [rec EXCEPT !.failed = @ \cup {idx}, !.pc = "done"]

\* Mutant: the exception is swallowed inside create_or_update_customer,
\* which goes on with the contact.
CaughtInside(rec, idx) == [rec EXCEPT !.failed = @ \cup {idx}, !.pc = "contact"]

\* except Exception in the batch loop, lines 97-101: log and continue.
Caught(rec, idx) == Advance([rec EXCEPT !.failed = @ \cup {idx}])

\* What sync_all_customers hands to its caller, lines 104-106: the function
\* ends after its last logger call, with no return statement.
SyncResult(rec) == None

\* sync_all_customers, line 91: while processed < total_customers.
BatchHead(r) ==
    /\ run[r].pc = "batch"
    /\ run' = [run EXCEPT ![r] =
                 IF run[r].processed < Total(r)
                 THEN [@ EXCEPT !.i = 1, !.pc = "lookup"]
                 ELSE [@ EXCEPT !.pc = "done", !.result = SyncResult(@)]]
    /\ UNCHANGED <<session, hookVars, inboundVars, shop, fetch, concurrent, Customer, Address, Contact, snap,
                   errlog, faults>>

\* sync_all_customers, lines 102-104: processed += BATCH_SIZE; commit.
Commit(r) ==
    /\ run[r].pc = "commit"
    /\ run' = [run EXCEPT ![r] = [@ EXCEPT !.processed = @ + BatchSize,
                                           !.commits = @ + 1,
                                           !.pc = "batch"]]
    /\ UNCHANGED <<session, hookVars, inboundVars, shop, fetch, concurrent, Customer, Address, Contact, snap,
                   errlog, faults>>

\* create_or_update_customer, lines 137-147: the call and the lookup by
\* Shopify customer id.
LookupStep(r) ==
    /\ run[r].pc = "lookup"
    /\ run' = [run EXCEPT ![r] =
                 [@ EXCEPT !.passed = Append(@, Idx(r)),
                           !.existing = LookupCustomer(Cur(r).id),
                           !.pc = "save"]]
    /\ UNCHANGED <<session, hookVars, inboundVars, shop, fetch, concurrent, Customer, Address, Contact, snap,
                   errlog, faults>>

\* The Customer table after customer.save() of lines 149-171, given the
\* lookup's result.
SavedCustomers(c, existing) ==
    IF existing # 0
    THEN [Customer EXCEPT ![existing] = CustomerFields(c, existing)]
    ELSE Append(Customer, CustomerFields(c, Len(Customer) + 1))

\* Whether customer.save() raises on its own: an insert the unique index
\* rejects.
CustomerSaveRejected(c, existing) ==
    existing = 0 /\ ~CustomerInsertAllowed(c.id)

\* create_or_update_customer, lines 149-174: build the document, save it and
\* enter handle_customer_addresses.
SaveStep(r) ==
    /\ run[r].pc = "save"
    /\ \E fault \in FaultChoices :
        LET c == Cur(r)
            raised == fault \/ CustomerSaveRejected(c, run[r].existing)
        IN /\ faults' = Bump(fault)
           /\ IF raised
              THEN /\ Customer' = Customer
                   /\ run' = [run EXCEPT ![r] = Caught(@, Idx(r))]
                   /\ errlog' = Log("Shopify Customer Import Error", r, Idx(r))
              ELSE /\ Customer' = SavedCustomers(c, run[r].existing)
                   /\ run' = [run EXCEPT ![r] =
                                [@ EXCEPT
                                   !.doc = IF run[r].existing # 0
                                           THEN run[r].existing
                                           ELSE Len(Customer) + 1,
                                   !.ai = 1,
                                   !.pc = IF c.addresses = <<>>
                                          THEN "contact" ELSE "addr_lookup"]]
                   /\ errlog' = errlog
    /\ UNCHANGED <<session, hookVars, inboundVars, shop, fetch, concurrent, Address, Contact, snap>>

\* create_or_update_address, lines 190-193: the lookup by Shopify address id.
AddrLookupStep(r) ==
    /\ run[r].pc = "addr_lookup"
    /\ run' = [run EXCEPT ![r] =
                 [@ EXCEPT
                    !.aexisting = LookupAddress(Cur(r).addresses[run[r].ai].id),
                    !.pc = "addr_save"]]
    /\ UNCHANGED <<session, hookVars, inboundVars, shop, fetch, concurrent, Customer, Address, Contact, snap,
                   errlog, faults>>

\* Mutant: an update adds the customer's link to the links the Address has.
SavedAddressesLinkAdded(c, a, existing, customer_doc) ==
    IF existing # 0
    THEN [Address EXCEPT ![existing] =
            [AddressFields(c, a, existing, customer_doc) EXCEPT
                !.links = Address[existing].links \o @]]
    ELSE Append(Address, AddressFields(c, a, Len(Address) + 1, customer_doc))

\* The Address table after address.save() of lines 226-235: address.update
\* puts address_fields, its one-row links table included, in place of what
\* the document held.
SavedAddresses(c, a, existing, customer_doc) ==
    IF existing # 0
    THEN [Address EXCEPT ![existing] = AddressFields(c, a, existing, customer_doc)]
    ELSE Append(Address, AddressFields(c, a, Len(Address) + 1, customer_doc))

AddressSaveRejected(a, existing) ==
    existing = 0 /\ ~AddressInsertAllowed(a.id)

\* create_or_update_address, lines 195-240, and the loop of
\* handle_customer_addresses: an exception is logged and raised again, and
\* reaches the batch loop.
AddrSaveStep(r) ==
    /\ run[r].pc = "addr_save"
    /\ \E fault \in FaultChoices :
        LET c == Cur(r)
            a == c.addresses[run[r].ai]
            raised == fault \/ AddressSaveRejected(a, run[r].aexisting)
        IN /\ faults' = Bump(fault)
           /\ IF raised
              THEN /\ Address' = Address
                   /\ run' = [run EXCEPT ![r] = Caught(@, Idx(r))]
                   /\ errlog' = Log("Shopify Address Import Error", r, Idx(r))
                                \cup {<<"Shopify Customer Import Error", r, Idx(r)>>}
              ELSE /\ Address' = SavedAddresses(c, a, run[r].aexisting, run[r].doc)
                   /\ run' = [run EXCEPT ![r] =
                                [@ EXCEPT
                                   !.ai = @ + 1,
                                   !.pc = IF run[r].ai < Len(c.addresses)
                                          THEN "addr_lookup" ELSE "contact"]]
                   /\ errlog' = errlog
    /\ UNCHANGED <<session, hookVars, inboundVars, shop, fetch, concurrent, Customer, Contact, snap>>

\* handle_customer_contacts, lines 246-258: a record without a phone is
\* logged and skipped; otherwise the lookup by phone.
ContactLookupStep(r) ==
    /\ run[r].pc = "contact"
    /\ IF Cur(r).phone = ""
       THEN /\ run' = [run EXCEPT ![r] = Advance(@)]
            /\ errlog' = Log("Shopify Contact Import Warning", r, Idx(r))
       ELSE /\ run' = [run EXCEPT ![r] =
                         [@ EXCEPT !.cexisting = LookupContact(Cur(r).phone),
                                   !.pc = "contact_save"]]
            /\ errlog' = errlog
    /\ UNCHANGED <<session, hookVars, inboundVars, shop, fetch, concurrent, Customer, Address, Contact, snap, faults>>

\* Mutant: the contact is inserted whether or not the lookup found one.
SavedContactsInserted(c, existing) ==
    Append(Contact, ContactFields(c, NewContact(Len(Contact) + 1)))

SavedContacts(c, existing) ==
    IF existing # 0
    THEN [Contact EXCEPT ![existing] = ContactFields(c, Contact[existing])]
    ELSE Append(Contact, ContactFields(c, NewContact(Len(Contact) + 1)))

\* handle_customer_contacts, lines 260-285.
ContactSaveStep(r) ==
    /\ run[r].pc = "contact_save"
    /\ \E fault \in FaultChoices :
        /\ faults' = Bump(fault)
        /\ IF fault
           THEN /\ Contact' = Contact
                /\ run' = [run EXCEPT ![r] = Caught(@, Idx(r))]
                /\ errlog' = Log("Shopify Contact Import Error", r, Idx(r))
                             \cup {<<"Shopify Customer Import Error", r, Idx(r)>>}
           ELSE /\ Contact' = SavedContacts(Cur(r), run[r].cexisting)
                /\ run' = [run EXCEPT ![r] = Advance(@)]
                /\ errlog' = errlog
    /\ UNCHANGED <<session, hookVars, inboundVars, shop, fetch, concurrent, Customer, Address, snap>>

Upsert(r) ==
    \/ BatchHead(r)
    \/ LookupStep(r)
    \/ SaveStep(r)
    \/ AddrLookupStep(r)
    \/ AddrSaveStep(r)
    \/ ContactLookupStep(r)
    \/ ContactSaveStep(r)
    \/ Commit(r)

Store == [Customer |-> Customer, Address |-> Address, Contact |-> Contact]

NoStore == [Customer |-> <<>>, Address |-> <<>>, Contact |-> <<>>]

\* A sync run enters its batch loop with the list its fetch loop collected.
\* The second run starts beside the first or after it.
StartRun(r) ==
    /\ run[r].pc = "idle"
    /\ r = 1 \/ concurrent \/ run[1].pc = "done"
    /\ run' = [run EXCEPT ![r] = [@ EXCEPT !.pc = "batch"]]
    /\ snap' = IF r = 2 THEN Store ELSE snap
    /\ UNCHANGED <<session, hookVars, inboundVars, shop, fetch, concurrent, Customer, Address, Contact,
                   errlog, faults>>

-----------------------------------------------------------------------------
(* Webhook subscriptions.  A domain and a callback address are sequences   *)
(* of string pieces; Python's  a in b  on strings is Contains.             *)

\* Saves of the Shopify Setting document the model follows.
MaxSaves == 2
\* Subscriptions the remote holds at the start, at most.
MaxInitHooks == 3

\* The topics the connector subscribes to.
WEBHOOK_EVENTS == <<"orders/create", "orders/paid">>

Topics == { WEBHOOK_EVENTS[i] : i \in 1..Len(WEBHOOK_EVENTS) }

\* Deployment domains: erp.com, my-erp.com (which contains erp.com) and a
\* tunnel domain.
DomErp == <<"erp.com">>
DomMyErp == <<"my-", "erp.com">>
DomTunnel == <<"x.loca.lt">>

Domains == {DomErp, DomMyErp, DomTunnel}

Confs ==
    [developer_mode : BOOLEAN, localtunnel_url : {<<>>, DomTunnel},
     host : {DomErp, DomMyErp}]

\* get_current_domain_name: localtunnel_url in developer mode when it is set,
\* the request's host otherwise.
DomainName(c) ==
    IF c.developer_mode /\ c.localtunnel_url # <<>>
    THEN c.localtunnel_url
    ELSE c.host

get_current_domain_name == DomainName(conf)

\* f"https://{url}/api/method/...store_request_data"
CallbackUrlOf(domain) ==
    <<"https://">> \o domain
    \o <<"/api/method/ecommerce_integrations.shopify.connection.store_request_data">>

get_callback_url == CallbackUrlOf(get_current_domain_name)

\* needle in hay, for Python strings.
Contains(hay, needle) ==
    \E i \in 0..(Len(hay) - Len(needle)) :
        SubSeq(hay, i + 1, i + Len(needle)) = needle

\* Mutant: no listed webhook is taken for one of this site.
MatchesNoSite(address) == FALSE

\* unregister_webhooks, line 183: get_current_domain_name() in address.
MatchesCurrentSite(address) == Contains(address, get_current_domain_name)

\* The remote's answer to GET webhooks.json: its subscriptions by id.
RECURSIVE ById(_)
ById(S) ==
    IF S = {} THEN <<>>
    ELSE LET w == CHOOSE x \in S : \A y \in S : x.id <= y.id
         IN <<w>> \o ById(S \ {w})

OwnListed(listing) ==
    SelectSeq(listing, LAMBDA w : MatchesCurrentSite(w.address))

\* The subscriptions the remote may hold before the connector acts: up to
\* MaxInitHooks of other deployments and of this one, numbered from 1.
HookKeys == Topics \X Domains

RECURSIVE Numbered(_, _)
Numbered(keys, n) ==
    IF keys = {} THEN {}
    ELSE LET k == CHOOSE x \in keys : TRUE
         IN {[id |-> n, topic |-> k[1], address |-> CallbackUrlOf(k[2])]}
            \cup Numbered(keys \ {k}, n + 1)

InitialHooks ==
    { Numbered(ks, 1) : ks \in { K \in SUBSET HookKeys : Cardinality(K) <= MaxInitHooks } }

\* create_shopify_log(status="Error", ...): one more Shopify Log.
ErrorLogged(request_data) ==
    Append(shoplog, [name |-> Len(shoplog) + 1, status |-> "Error",
                     method |-> "", request_data |-> request_data])

\* validate before a save.  kept: the subscriptions whose delete the remote
\* rejected in this call; created: the ids of the subscriptions the create
\* requests of this deployment have made so far, over all its saves.
IdleHook ==
    [pc |-> "idle", op |-> "none", listed |-> <<>>, kept |-> {},
     new_webhooks |-> <<>>, ti |-> 0, outcome |-> "none", returned |-> "none",
     saves |-> 0, created |-> {}]

\* unregister_webhooks has run through its list.  For register_webhooks the
\* create requests follow; for a disabled setting _handle_webhooks empties
\* the webhooks table and validate returns.
AfterUnregister(w) ==
    IF w.op = "register"
    THEN [w EXCEPT !.pc = "post", !.ti = 1, !.listed = <<>>]
    ELSE [w EXCEPT !.pc = "idle", !.listed = <<>>, !.outcome = "saved",
                   !.returned = "unregister"]

SettingAfterUnregister(w) ==
    IF w.op = "register" THEN setting
    ELSE [enable_shopify |-> FALSE, webhooks |-> <<>>]

\* ShopifySetting.validate, _handle_webhooks, lines 58-76: the branch taken
\* when the document is saved with enable_shopify = enable, by a request
\* under the site configuration and host c.
SaveSetting(enable, c) ==
    /\ wh.pc = "idle"
    /\ wh.saves < MaxSaves
    /\ IF enable /\ setting.webhooks = <<>>
       THEN /\ wh' = [IdleHook EXCEPT !.pc = "list", !.op = "register",
                                      !.saves = wh.saves + 1,
                                      !.created = wh.created]
            /\ setting' = setting
       ELSE IF ~enable
       THEN /\ wh' = [IdleHook EXCEPT !.pc = "list", !.op = "unregister",
                                      !.saves = wh.saves + 1,
                                      !.created = wh.created]
            /\ setting' = setting
       ELSE /\ wh' = [IdleHook EXCEPT !.outcome = "saved",
                                      !.saves = wh.saves + 1,
                                      !.created = wh.created]
            /\ setting' = [setting EXCEPT !.enable_shopify = TRUE]
    /\ conf' = c
    /\ UNCHANGED <<session, syncVars, errlog, faults, hooks, hookSeq, inboundVars>>

\* Mutant: a listing that fails is taken for an empty listing.
ListStepStatusIgnored ==
    /\ wh.pc = "list"
    /\ \E fault \in FaultChoices :
        /\ faults' = Bump(fault)
        /\ wh' = IF ~fault /\ OwnListed(ById(hooks)) # <<>>
                 THEN [wh EXCEPT !.pc = "delete",
                                 !.listed = OwnListed(ById(hooks))]
                 ELSE AfterUnregister(wh)
        /\ setting' = IF ~fault /\ OwnListed(ById(hooks)) # <<>>
                      THEN setting
                      ELSE SettingAfterUnregister(wh)
    /\ UNCHANGED <<session, syncVars, errlog, conf, hooks, hookSeq, inboundVars>>

\* unregister_webhooks, lines 175-183 and 195-197: the listing request.  A
\* status other than 200 is logged and raised, and the save fails.
ListStep ==
    /\ wh.pc = "list"
    /\ \E fault \in FaultChoices :
        /\ faults' = Bump(fault)
        /\ IF fault
           THEN /\ wh' = [wh EXCEPT !.pc = "idle", !.outcome = "raised"]
                /\ errlog' = Log("Shopify Unregister Webhooks Error", 0, 0)
                /\ setting' = setting
           ELSE /\ errlog' = errlog
                /\ IF OwnListed(ById(hooks)) # <<>>
                   THEN /\ wh' = [wh EXCEPT !.pc = "delete",
                                            !.listed = OwnListed(ById(hooks))]
                        /\ setting' = setting
                   ELSE /\ wh' = AfterUnregister(wh)
                        /\ setting' = SettingAfterUnregister(wh)
    /\ UNCHANGED <<session, syncVars, conf, hooks, hookSeq, inboundVars>>

\* unregister_webhooks, lines 184-194: the delete request for the next listed
\* webhook of this site.  A status other than 200 is logged and the loop
\* goes on.
DeleteStep ==
    /\ wh.pc = "delete"
    /\ \E fault \in FaultChoices :
        LET w == Head(wh.listed)
            rest == [wh EXCEPT !.listed = Tail(@),
                               !.kept = IF fault THEN @ \cup {w} ELSE @]
        IN /\ faults' = Bump(fault)
           /\ hooks' = IF fault THEN hooks ELSE hooks \ {w}
           /\ shoplog' = IF fault THEN ErrorLogged("") ELSE shoplog
           /\ IF rest.listed # <<>>
              THEN /\ wh' = rest
                   /\ setting' = setting
              ELSE /\ wh' = AfterUnregister(rest)
                   /\ setting' = SettingAfterUnregister(rest)
    /\ UNCHANGED <<session, syncVars, errlog, conf, hookSeq, secret, inbound, queue>>

\* _handle_webhooks, lines 64-71, once register_webhooks has returned
\* new_webhooks.  An empty list is thrown on.  The entries of a list that is
\* not empty are the dicts of response.json(), and webhook.id on a dict
\* raises AttributeError before anything is appended: either way validate
\* raises and the document is not saved.
Registered(w, new_webhooks) ==
    [w EXCEPT !.pc = "idle", !.new_webhooks = new_webhooks,
              !.returned = "register",
              !.outcome = IF new_webhooks = <<>> THEN "raised"
                          ELSE "raised AttributeError"]

\* register_webhooks, lines 143-166: the create request for the next topic.
\* 201 adds the subscription; any other status is logged and the loop goes
\* on.  The remote does not refuse a topic it already holds for the address.
PostStep ==
    /\ wh.pc = "post"
    /\ \E fault \in FaultChoices :
        LET webhook == [id |-> hookSeq + 1, topic |-> WEBHOOK_EVENTS[wh.ti],
                        address |-> get_callback_url]
            new_webhooks == IF fault THEN wh.new_webhooks
                            ELSE Append(wh.new_webhooks, webhook)
            created == IF fault THEN wh.created
                       ELSE wh.created \cup {webhook.id}
        IN /\ faults' = Bump(fault)
           /\ hooks' = IF fault THEN hooks ELSE hooks \cup {webhook}
           /\ hookSeq' = IF fault THEN hookSeq ELSE hookSeq + 1
           /\ shoplog' = IF fault THEN ErrorLogged("") ELSE shoplog
           /\ wh' = IF wh.ti < Len(WEBHOOK_EVENTS)
                    THEN [wh EXCEPT !.ti = @ + 1, !.new_webhooks = new_webhooks,
                                    !.created = created]
                    ELSE Registered([wh EXCEPT !.created = created],
                                    new_webhooks)
    /\ UNCHANGED <<session, syncVars, errlog, conf, setting, secret, inbound, queue>>

QuietConf == [developer_mode |-> FALSE, localtunnel_url |-> <<>>, host |-> DomErp]

FreshSetting == [enable_shopify |-> FALSE, webhooks |-> <<>>]

\* The subscriptions of S at the callback URL of the site under c.
AtCallbackUrl(S, c) == { h \in S : h.address = CallbackUrlOf(DomainName(c)) }

\* The rows of the webhooks table for a list of subscriptions.
WebhookRows(ws) ==
    [n \in 1..Len(ws) |-> [webhook_id |-> ws[n].id, method |-> ws[n].topic]]

\* The Shopify Setting document as stored when the model starts: never
\* enabled, or enabled with one row per topic for the subscriptions the
\* remote holds at the site's callback URL.
StoredSettings(S, c) ==
    {FreshSetting}
    \cup { [enable_shopify |-> TRUE, webhooks |-> WebhookRows(ById(own))] :
             own \in { O \in {AtCallbackUrl(S, c)} :
                         \A t \in Topics :
                             Cardinality({ h \in O : h.topic = t }) = 1 } }

-----------------------------------------------------------------------------
(* The inbound webhook endpoint.  HMAC-SHA256 and base64 are free          *)
(* constructors: two digests are equal only for the same key and message.  *)

\* Requests the endpoint receives in one behaviour.
MaxInbound == 2

Hmac(key, msg) == <<"hmac-sha256", key, msg>>

B64(bytes) == <<"base64", bytes>>

\* A request that carries no X-Shopify-Hmac-Sha256 header.
NoHeader == <<"none">>

\* settings.shared_secret
Secrets == {"shpss_1", "shpss_2"}

SharedSecret == "shpss_1"

Bodies == {"{\"id\": 1}", "{\"id\": 2}", "not json"}

ValidJson(body) == body # "not json"

\* json.loads(body)
JsonLoads(body) == <<"parsed", body>>

\* The handler of each topic.
EVENT_MAPPER ==
    [t \in Topics |-> IF t = "orders/create" THEN "sync_sales_order"
                      ELSE "prepare_sales_invoice"]

Requests ==
    [data : Bodies,
     hmac_header : {NoHeader}
                   \cup { B64(Hmac(k, b)) : k \in Secrets, b \in Bodies },
     topic : {"orders/create", "app/uninstalled"}]

\* Mutant: the digest is computed without the shared secret.
SignatureUnkeyed(key, data) == B64(Hmac("", data))

\* _validate_request, line 248.
Signature(key, data) == B64(Hmac(key, data))

IdleInbound ==
    [pc |-> "idle", req |-> [data |-> "", hmac_header |-> NoHeader, topic |-> ""],
     outcome |-> "none", log |-> 0, count |-> 0, logs |-> 0, jobs |-> 0]

\* An HTTP request reaches store_request_data.
Receive(req) ==
    /\ inbound.pc = "idle"
    /\ inbound.count < MaxInbound
    /\ inbound' = [IdleInbound EXCEPT !.pc = "validate", !.req = req,
                                      !.count = inbound.count + 1,
                                      !.logs = Len(shoplog),
                                      !.jobs = Len(queue)]
    /\ UNCHANGED <<session, syncVars, errlog, faults, hookVars, secret, shoplog, queue>>

\* store_request_data, lines 222-226, with _validate_request, lines 244-252.
\* Without the header, hmac_header.encode() raises before anything is
\* logged; a digest that differs is logged as an Error and raised; a body
\* that is no JSON, and a topic EVENT_MAPPER does not know, raise after the
\* check.
ValidateStep ==
    /\ inbound.pc = "validate"
    /\ LET req == inbound.req
       IN IF req.hmac_header = NoHeader
          THEN /\ inbound' = [inbound EXCEPT !.pc = "idle", !.outcome = "raised"]
               /\ shoplog' = shoplog
          ELSE IF Signature(secret, req.data) # req.hmac_header
          THEN /\ inbound' = [inbound EXCEPT !.pc = "idle", !.outcome = "rejected"]
               /\ shoplog' = ErrorLogged(req.data)
          ELSE IF ~ValidJson(req.data) \/ req.topic \notin DOMAIN EVENT_MAPPER
          THEN /\ inbound' = [inbound EXCEPT !.pc = "idle", !.outcome = "raised"]
               /\ shoplog' = shoplog
          ELSE /\ inbound' = [inbound EXCEPT !.pc = "log"]
               /\ shoplog' = shoplog
    /\ UNCHANGED <<session, syncVars, errlog, faults, hookVars, secret, queue>>

\* Mutant: process_request goes on to enqueue without creating the log.
ProcessLogSkipped ==
    /\ inbound.pc = "log"
    /\ inbound' = [inbound EXCEPT !.pc = "enqueue"]
    /\ UNCHANGED <<session, syncVars, errlog, faults, hookVars, secret, shoplog, queue>>

\* process_request, line 232: the log of the request.
ProcessLogStep ==
    /\ inbound.pc = "log"
    /\ shoplog' = Append(shoplog,
                    [name |-> Len(shoplog) + 1, status |-> "Queued",
                     method |-> EVENT_MAPPER[inbound.req.topic],
                     request_data |-> JsonLoads(inbound.req.data)])
    /\ inbound' = [inbound EXCEPT !.pc = "enqueue", !.log = Len(shoplog) + 1]
    /\ UNCHANGED <<session, syncVars, errlog, faults, hookVars, secret, queue>>

\* process_request, lines 235-241: the background job.
EnqueueStep ==
    /\ inbound.pc = "enqueue"
    /\ queue' = Append(queue,
                  [method |-> EVENT_MAPPER[inbound.req.topic],
                   payload |-> JsonLoads(inbound.req.data),
                   request_id |-> inbound.log])
    /\ inbound' = [inbound EXCEPT !.pc = "idle", !.outcome = "accepted"]
    /\ UNCHANGED <<session, syncVars, errlog, faults, hookVars, secret, shoplog>>

-----------------------------------------------------------------------------
(* The session decorator temp_shopify_session.                             *)

\* Calls of a wrapped function in one behaviour.
MaxCalls == 2

\* No Shopify session is active.
NoSession == <<>>

\* frappe.flags.in_test, and the Shopify Setting the wrapper reads with
\* frappe.get_doc: a missing shopify_url or password is "".
WrapperInputs ==
    [in_test : BOOLEAN, enable_shopify : BOOLEAN,
     shopify_url : {"", "a.myshopify.com", "b.myshopify.com"},
     password : {"", "shpat_1"}]

\* Mutant: the wrapper opens the session without looking at the URL and the
\* password.
WrapperBranchUnchecked(in) ==
    IF in.in_test THEN "body"
    ELSE IF in.enable_shopify THEN "session"
    ELSE "not enabled"

\* wrapper, lines 30-57: run the body as it is in test mode; otherwise, for
\* an enabled setting, throw when the URL or the password is missing and
\* run the body in a session when both are set; throw for a disabled
\* setting.
WrapperBranch(in) ==
    IF in.in_test THEN "body"
    ELSE IF in.enable_shopify
    THEN IF in.shopify_url = "" \/ in.password = ""
         THEN "auth error"
         ELSE "session"
    ELSE "not enabled"

IdleSession ==
    [pc |-> "idle",
     in |-> [in_test |-> FALSE, enable_shopify |-> FALSE, shopify_url |-> "",
             password |-> ""],
     active |-> NoSession, ran |-> 0, outcome |-> "none", calls |-> 0]

\* A function decorated with temp_shopify_session is called.
CallWrapped(in) ==
    /\ session.pc = "idle"
    /\ session.calls < MaxCalls
    /\ session' = [IdleSession EXCEPT !.pc = "wrapper", !.in = in,
                                      !.calls = session.calls + 1]
    /\ UNCHANGED <<syncVars, errlog, faults, hookVars, inboundVars>>

\* wrapper, lines 30-57, up to the call of func or the throw.
WrapperStep ==
    /\ session.pc = "wrapper"
    /\ LET branch == WrapperBranch(session.in)
       IN /\ session' =
                IF branch = "body"
                THEN [session EXCEPT !.pc = "body"]
                ELSE IF branch = "session"
                THEN [session EXCEPT
                        !.pc = "body",
                        !.active = <<session.in.shopify_url, "API_VERSION",
                                     session.in.password>>]
                ELSE [session EXCEPT !.pc = "idle", !.outcome = "raised"]
          /\ errlog' =
                IF branch = "auth error"
                THEN Log("Shopify Auth Error: Missing shopify_url or password", 0, 0)
                ELSE errlog
    /\ UNCHANGED <<syncVars, faults, hookVars, inboundVars>>

\* func(*args, **kwargs) runs and returns; leaving the with block ends the
\* temporary session.
BodyStep ==
    /\ session.pc = "body"
    /\ session' = [session EXCEPT !.pc = "idle", !.ran = @ + 1,
                                  !.active = NoSession,
                                  !.outcome = "returned"]
    /\ UNCHANGED <<syncVars, errlog, faults, hookVars, inboundVars>>

-----------------------------------------------------------------------------
(* Specifications.                                                         *)

\* The shop left alone by the specifications that do not fetch.
QuietShop ==
    [pages |-> << <<>> >>, pageInfoLinks |-> TRUE, failPage |-> 0,
     failKind |-> "status"]

Fetchers == {"connection", "requests", "sync"}

\* The parts a specification leaves alone.
QuietSync ==
    /\ shop = QuietShop
    /\ fetch = IdleFetch
    /\ run = [r \in Runs |-> IdleRun]
    /\ concurrent = FALSE
    /\ Customer = <<>> /\ Address = <<>> /\ Contact = <<>>
    /\ snap = NoStore

QuietHooks ==
    /\ conf = QuietConf /\ hooks = {} /\ hookSeq = 0
    /\ setting = FreshSetting /\ wh = IdleHook

QuietInbound ==
    /\ secret = SharedSecret /\ inbound = IdleInbound
    /\ shoplog = <<>> /\ queue = <<>>

QuietSession == session = IdleSession

\* One call of one of the three fetchers against some remote; for
\* sync_all_customers the batch upsert of what it fetched follows.
InitFetch ==
    /\ QuietSession
    /\ shop \in Shops
    /\ fetch \in { NewFetch(fn, cfg) : fn \in Fetchers, cfg \in BOOLEAN }
    /\ fetch.fn # "sync" => fetch.configured
    /\ run = [r \in Runs |-> IdleRun]
    /\ concurrent = FALSE
    /\ Customer = <<>> /\ Address = <<>> /\ Contact = <<>>
    /\ snap = NoStore
    /\ errlog = {}
    /\ faults = 0
    /\ QuietHooks
    /\ QuietInbound

NextFetch ==
    \/ ConnFetchStep
    \/ ReqFetchStep
    \/ SyncStart
    \/ SyncFetchStep
    \/ Upsert(1)

SpecFetch == InitFetch /\ [][NextFetch]_vars

\* The lists a fetch can hand to the batch loop: records of the pool, in any
\* order, repeats included.
RECURSIVE SeqsUpTo(_, _)
SeqsUpTo(S, n) ==
    IF n = 0 THEN {<<>>}
    ELSE SeqsUpTo(S, n - 1)
         \cup { Append(q, x) : q \in { p \in SeqsUpTo(S, n - 1) : Len(p) = n - 1 },
                               x \in S }

PoolSet == { RecordPool[i] : i \in 1..Len(RecordPool) }

\* Two runs of the batch upsert over the same fetched list, on an empty
\* store, one after the other.
InitSync ==
    /\ QuietSession
    /\ shop = QuietShop
    /\ fetch = IdleFetch
    /\ \E cs \in SeqsUpTo(PoolSet, MaxRecords) :
          run = [r \in Runs |-> [IdleRun EXCEPT !.customers = cs]]
    /\ concurrent = FALSE
    /\ Customer = <<>> /\ Address = <<>> /\ Contact = <<>>
    /\ snap = NoStore
    /\ errlog = {}
    /\ faults = 0
    /\ QuietHooks
    /\ QuietInbound

NextSync == \E r \in Runs : StartRun(r) \/ Upsert(r)

SpecSync == InitSync /\ [][NextSync]_vars

\* Two overlapping runs of the batch upsert over the same fetched list: their
\* database operations interleave in any order.
InitRace ==
    /\ QuietSession
    /\ shop = QuietShop
    /\ fetch = IdleFetch
    /\ \E cs \in SeqsUpTo(PoolSet, MaxRaceRecords) :
          run = [r \in Runs |-> [IdleRun EXCEPT !.customers = cs]]
    /\ concurrent = TRUE
    /\ Customer = <<>> /\ Address = <<>> /\ Contact = <<>>
    /\ snap = NoStore
    /\ errlog = {}
    /\ faults = 0
    /\ QuietHooks
    /\ QuietInbound

SpecRace == InitRace /\ [][NextSync]_vars

\* Saves of the Shopify Setting document, enabling or disabling the
\* integration, against a remote that holds some subscriptions already.
InitHook ==
    /\ QuietSession
    /\ QuietSync
    /\ errlog = {}
    /\ faults = 0
    /\ conf \in Confs
    /\ hooks \in InitialHooks
    /\ hookSeq = Cardinality(hooks)
    /\ setting \in StoredSettings(hooks, conf)
    /\ wh = IdleHook
    /\ QuietInbound

NextHook ==
    \/ \E enable \in BOOLEAN, c \in Confs : SaveSetting(enable, c)
    \/ ListStep
    \/ DeleteStep
    \/ PostStep

SpecHook == InitHook /\ [][NextHook]_vars

\* Requests reaching the guest endpoint store_request_data, one at a time.
InitInbound ==
    /\ QuietSession
    /\ QuietSync
    /\ errlog = {}
    /\ faults = 0
    /\ QuietHooks
    /\ secret \in Secrets
    /\ inbound = IdleInbound
    /\ shoplog = <<>>
    /\ queue = <<>>

NextInbound ==
    \/ \E req \in Requests : Receive(req)
    \/ ValidateStep
    \/ ProcessLogStep
    \/ EnqueueStep

SpecInbound == InitInbound /\ [][NextInbound]_vars

\* Calls of a function wrapped by temp_shopify_session, one after the other,
\* under every test flag and stored setting.
InitSession ==
    /\ QuietSync
    /\ errlog = {}
    /\ faults = 0
    /\ QuietHooks
    /\ QuietInbound
    /\ session = IdleSession

NextSession ==
    \/ \E in \in WrapperInputs : CallWrapped(in)
    \/ WrapperStep
    \/ BodyStep

SpecSession == InitSession /\ [][NextSession]_vars

-----------------------------------------------------------------------------
(* Claims about the paginated fetch (SpecFetch).                           *)

Iota(n) == [i \in 1..n |-> i]

\* The fetch loop has ended normally: the get_shopify_customers fetchers
\* returned their list, sync_all_customers left its fetch loop.
FetchFinished ==
    \/ fetch.fn \in {"connection", "requests"} /\ fetch.pc = "returned"
    \/ fetch.fn = "sync" /\ fetch.pc = "process"

\* The fetch loop has been entered and has not ended.
Fetching == fetch.pc = "request"

AllPagesAnswer200 == shop.failPage = 0

\* The fetcher follows the remote's next links: shopify_requests requests the
\* link's URL as it is, the other two only take its page_info parameter.
FollowsLinks == fetch.fn = "requests" \/ shop.pageInfoLinks

CollectedInOrder ==
    /\ Len(fetch.requested) <= Len(shop.pages)
    /\ fetch.customers = Flatten(SubSeq(shop.pages, 1, Len(fetch.requested)))
    /\ FetchFinished => fetch.customers = Flatten(shop.pages)

\* C1 as stated: whenever every page answers 200 and each non-final page
\* carries a rel="next" link to the following page, the list a fetcher has
\* collected is the concatenation of the pages served so far, and of all the
\* pages once it has finished.
C1_AnyNextLink ==
    (fetch.fn \in Fetchers /\ AllPagesAnswer200) => CollectedInOrder

\* C1 as amended: the same, when the next links carry the following page's
\* cursor in a page_info parameter (any next link, for shopify_requests).
C1_ConcatenatesPages ==
    (fetch.fn \in Fetchers /\ AllPagesAnswer200 /\ FollowsLinks)
        => CollectedInOrder

C1_Witness ==
    /\ fetch.fn = "connection" /\ fetch.pc = "returned"
    /\ AllPagesAnswer200 /\ shop.pageInfoLinks
    /\ Len(shop.pages) = 3
    /\ Len(fetch.customers) = 3
    /\ \A i \in 1..3 : fetch.customers[i].id = i

OnePassOverPages ==
    /\ fetch.requested = Iota(Len(fetch.requested))
    /\ Len(fetch.requested) <= Len(shop.pages)
    /\ FetchFinished => Len(fetch.requested) = Len(shop.pages)
    /\ Fetching => /\ Len(fetch.requested) < Len(shop.pages)
                   /\ Len(fetch.requested) < MaxRequests

\* C9 as stated: over a finite chain of pages that all answer 200, whether or
\* not the next links carry page_info, a fetcher requests the pages one by
\* one in order, none twice, is still short of the last page while it runs,
\* and has requested every page exactly once when it ends.
C9_AnyNextLink ==
    (fetch.fn \in Fetchers /\ AllPagesAnswer200) => OnePassOverPages

\* C9 as amended: the same, when the next links carry page_info (any next
\* link, for shopify_requests).
C9_OneRequestPerPage ==
    (fetch.fn \in Fetchers /\ AllPagesAnswer200 /\ FollowsLinks)
        => OnePassOverPages

C9_Witness ==
    /\ fetch.fn = "sync" /\ fetch.pc = "process"
    /\ AllPagesAnswer200 /\ shop.pageInfoLinks
    /\ fetch.requested = <<1, 2, 3>>

\* The request for the failing page has been sent.
FetchFailed ==
    /\ shop.failPage # 0
    /\ \E n \in 1..Len(fetch.requested) : fetch.requested[n] = shop.failPage

\* C2: once the request for a page has failed no partial result is used: a
\* get_shopify_customers fetcher has raised instead of returning a list, and
\* sync_all_customers passes no customer collected before the failure to
\* create_or_update_customer and stores none.
C2_FailedFetchUsesNothing ==
    FetchFailed =>
        /\ fetch.fn \in {"connection", "requests"} => fetch.pc = "raised"
        /\ fetch.fn = "sync" => run[1].passed = <<>> /\ Customer = <<>>

-----------------------------------------------------------------------------
(* Claims about the batch upsert (SpecSync, SpecRace).                     *)

NoSaveFailed == faults = 0 /\ \A r \in Runs : run[r].failed = {}

Keys(table, field) == [n \in 1..Len(table) |-> table[n][field]]

\* C3: once the first run is over and no save has failed, the second run
\* over the same records creates no Customer, Address or Contact: each table
\* keeps its documents and their keys, and when the second run is over the
\* store is what the first run left.
C3_SecondRunCreatesNothing ==
    (run[2].pc # "idle" /\ NoSaveFailed) =>
        /\ Keys(Customer, "custom_shopify_customer_id")
             = Keys(snap.Customer, "custom_shopify_customer_id")
        /\ Keys(Address, "shopify_address_id")
             = Keys(snap.Address, "shopify_address_id")
        /\ Keys(Contact, "phone") = Keys(snap.Contact, "phone")
        /\ run[2].pc = "done" => Store = snap

C3_Witness ==
    /\ run[2].pc = "done" /\ NoSaveFailed
    /\ Len(run[2].passed) = 2
    /\ Len(Customer) = 2 /\ Len(Address) = 2 /\ Len(Contact) = 1

\* C4: the batch loop passes the fetched records to
\* create_or_update_customer one by one in order whatever raised before:
\* every record whose upsert raised is logged, and when the loop is over
\* every record has been passed.
C4_BatchSurvivesExceptions ==
    \A r \in Runs :
        /\ run[r].passed = Iota(Len(run[r].passed))
        /\ run[r].failed \subseteq 1..Len(run[r].passed)
        /\ \A idx \in run[r].failed :
              <<"Shopify Customer Import Error", r, idx>> \in errlog
        /\ run[r].pc = "done" => Len(run[r].passed) = Total(r)

C4_Witness ==
    /\ run[1].pc = "done"
    /\ run[1].failed = {1}
    /\ run[1].passed = <<1, 2>>
    /\ Len(Customer) = 1

\* C8: no two local Customer documents carry the same Shopify customer id.
C8_UniqueCustomerId ==
    \A m, n \in 1..Len(Customer) :
        m # n => Customer[m].custom_shopify_customer_id
                   # Customer[n].custom_shopify_customer_id

\* Both runs looked the same id up before either saved, both went on to
\* insert, and the second insert was rejected.
C8_Witness ==
    /\ concurrent /\ faults = 0
    /\ Len(Customer) = 1
    /\ \E r \in Runs : run[r].failed = {1} /\ run[r].existing = 0
    /\ \A r \in Runs : run[r].pc = "done"


-----------------------------------------------------------------------------
(* C5: the inbound signature check.                                        *)

\* base64(HMAC-SHA256(shared_secret, raw request body)) of the request the
\* endpoint has in hand.
ExpectedSignature == B64(Hmac(secret, inbound.req.data))

HeaderMatches == inbound.req.hmac_header = ExpectedSignature

\* The endpoint is through with the request it received last.
RequestEnded == inbound.pc = "idle" /\ inbound.count > 0

\* What the request in hand has added to the Shopify Log and to the queue.
LogsOfRequest == SubSeq(shoplog, inbound.logs + 1, Len(shoplog))

JobsOfRequest == SubSeq(queue, inbound.jobs + 1, Len(queue))

Processed ==
    /\ inbound.outcome = "accepted"
    /\ Len(LogsOfRequest) = 1
    /\ LogsOfRequest[1].status = "Queued"
    /\ LogsOfRequest[1].request_data = JsonLoads(inbound.req.data)
    /\ Len(JobsOfRequest) = 1
    /\ JobsOfRequest[1].payload = JsonLoads(inbound.req.data)
    /\ JobsOfRequest[1].method = EVENT_MAPPER[inbound.req.topic]
    /\ JobsOfRequest[1].request_id = LogsOfRequest[1].name

-----------------------------------------------------------------------------
(* C6, C7, C10: the remote's subscriptions around register_webhooks,       *)
(* unregister_webhooks and the saves of the Shopify Setting.               *)

\* The remote's subscriptions at this deployment's callback URL.
OwnHooks == { h \in hooks : h.address = get_callback_url }

\* C6: once register_webhooks has returned, the remote holds exactly one
\* subscription per topic of WEBHOOK_EVENTS at this deployment's callback
\* URL.
C6_OnePerTopicAfterRegister ==
    wh.returned = "register"
    => \A t \in Topics : Cardinality({ h \in OwnHooks : h.topic = t }) = 1

\* The address is the callback URL of a deployment on another domain.
OnAnotherDomain(address) ==
    \E d \in Domains : d # get_current_domain_name /\ address = CallbackUrlOf(d)

\* C7: no step of unregister_webhooks (alone or inside register_webhooks)
\* removes or changes a subscription whose callback address is on another
\* deployment's domain.
C7_OtherDeploymentsKept ==
    [][wh.pc \in {"list", "delete"}
       => \A h \in hooks : OnAnotherDomain(h.address) => h \in hooks']_vars

\* C10: whenever validate has returned normally with the integration
\* enabled, the topics of the remote's subscriptions at this deployment's
\* callback URL are those of WEBHOOK_EVENTS.
C10_EnabledMeansSubscribed ==
    (wh.pc = "idle" /\ wh.outcome = "saved" /\ setting.enable_shopify)
    => { h.topic : h \in OwnHooks } = Topics

-----------------------------------------------------------------------------
(* C11: what sync_all_customers reports.                                   *)

\* The counts of a finished run: imported, failed, total.
Counts(rec) ==
    <<Len(rec.passed) - Cardinality(rec.failed), Cardinality(rec.failed),
      Len(rec.customers)>>

\* C11: when the batch upsert is over, sync_all_customers has handed its
\* caller the counts imported, failed and total, where failed counts the
\* records whose upsert raised and imported + failed = total = the number of
\* fetched records.
C11_CountsReported ==
    \A r \in Runs :
        run[r].pc = "done"
        => /\ run[r].result = Counts(run[r])
           /\ Counts(run[r])[1] + Counts(run[r])[2] = Counts(run[r])[3]

-----------------------------------------------------------------------------
(* C12: Address documents and their links.                                 *)

AddressesOf(table, id) ==
    { n \in 1..Len(table) : table[n].shopify_address_id = Str(id) }

\* Each Address has one link, to a Customer document of the store.
OneCustomerEach(table, customers) ==
    \A n \in 1..Len(table) :
        /\ Len(table[n].links) = 1
        /\ table[n].links[1].link_doctype = "Customer"
        /\ table[n].links[1].link_name \in 1..Len(customers)

\* C12: every address upsert that does not raise leaves exactly one Address
\* for its Shopify address id, linked to the one Customer document of the
\* customer it arrived under, and leaves the other Addresses as they were;
\* no two Addresses share a Shopify address id and every Address has
\* exactly one link, to a Customer.
C12_OneAddressOneCustomer ==
    [][\A r \in Runs :
          (run[r].pc = "addr_save" /\ run'[r].failed = run[r].failed)
          => LET a == Cur(r).addresses[run[r].ai]
                 S == AddressesOf(Address', a.id)
             IN /\ Cardinality(S) = 1
                /\ \A n \in S :
                      /\ Len(Address'[n].links) = 1
                      /\ Address'[n].links[1].link_name = run[r].doc
                      /\ Customer[run[r].doc].custom_shopify_customer_id
                           = Str(Cur(r).id)
                /\ \A n \in 1..Len(Address) : n \notin S => Address'[n] = Address[n]
                /\ \A m, n \in 1..Len(Address') :
                      m # n => Address'[m].shopify_address_id
                                 # Address'[n].shopify_address_id
                /\ OneCustomerEach(Address', Customer')]_vars

\* Address 10 arrived under customer 1 and then under customer 2: one
\* Address, linked to the second Customer.
C12_Witness ==
    /\ run[1].pc = "done" /\ run[1].failed = {}
    /\ run[1].customers = <<CustA, CustB>>
    /\ Len(Customer) = 2
    /\ Cardinality(AddressesOf(Address, 10)) = 1
    /\ \A n \in AddressesOf(Address, 10) :
          Address[n].links = <<[link_doctype |-> "Customer", link_name |-> 2]>>

-----------------------------------------------------------------------------
(* C13: the log and the job of an accepted request.                        *)

\* C13: a job is put on the queue only as the first job of a request whose
\* signature matched, after the one log record of that request: the job is
\* for the handler mapped to the request's topic and carries the parsed
\* payload and that log record's name as request_id; an accepted request
\* ends with exactly one log record and one job.
C13_LogThenOneJob ==
    [][/\ queue' # queue
          => /\ Len(queue') = Len(queue) + 1
             /\ SubSeq(queue', 1, Len(queue)) = queue
             /\ JobsOfRequest = <<>>
             /\ HeaderMatches
             /\ Len(LogsOfRequest) = 1
             /\ shoplog' = shoplog
             /\ LET job == queue'[Len(queue')]
                    log == LogsOfRequest[1]
                IN /\ job.request_id = log.name
                   /\ log.name = Len(shoplog)
                   /\ log.status = "Queued"
                   /\ job.method = EVENT_MAPPER[inbound.req.topic]
                   /\ log.method = job.method
                   /\ job.payload = JsonLoads(inbound.req.data)
                   /\ log.request_data = job.payload
       /\ (inbound'.pc = "idle" /\ inbound'.outcome = "accepted")
          => /\ Len(SubSeq(queue', inbound'.jobs + 1, Len(queue'))) = 1
             /\ Len(SubSeq(shoplog', inbound'.logs + 1, Len(shoplog'))) = 1]_vars

\* A request was rejected and logged as an Error, and the next one was
\* logged and enqueued under its own log record's name.
C13_Witness ==
    /\ RequestEnded /\ inbound.outcome = "accepted"
    /\ Len(shoplog) = 2
    /\ shoplog[1].status = "Error" /\ shoplog[2].status = "Queued"
    /\ Len(queue) = 1
    /\ queue[1].request_id = 2
    /\ queue[1].method = "sync_sales_order"

-----------------------------------------------------------------------------
(* C14: stale subscriptions after the callback URL changed.                *)

\* The subscriptions this deployment created that the remote still holds at
\* an address other than its callback URL of now.
StaleHooks ==
    { h \in hooks : h.id \in wh.created /\ h.address # get_callback_url }

\* C14: once register_webhooks has returned, the remote holds no
\* subscription that this deployment registered earlier at a callback URL
\* different from its callback URL of now.
C14_NoStaleAfterRegister == wh.returned = "register" => StaleHooks = {}

-----------------------------------------------------------------------------
(* C15, C18: inside register_webhooks.                                     *)

\* register_webhooks is between the return of unregister_webhooks and its
\* first create request.
BetweenUnregisterAndCreate ==
    wh.op = "register" /\ wh.pc = "post" /\ wh.ti = 1

\* C15: between the return of unregister_webhooks, every delete of which was
\* accepted, and the first create request of register_webhooks, the remote
\* holds no subscription at this deployment's callback URL, whatever it
\* held before the call.
C15_NoneBetweenUnregisterAndCreate ==
    (BetweenUnregisterAndCreate /\ wh.kept = {}) => OwnHooks = {}

\* The deployment my-erp.com had registered, registers again, and its two
\* subscriptions are gone while none is created yet.
C15_Witness ==
    /\ BetweenUnregisterAndCreate /\ wh.kept = {}
    /\ get_current_domain_name = DomMyErp
    /\ wh.created = {1, 2}
    /\ hooks = {}

\* C18: when the listing request of unregister_webhooks is answered with a
\* status other than 200 the call raises at once: nothing is deleted,
\* register_webhooks sends no create request, the remote's subscriptions
\* and the stored setting are what they were before the call, and the
\* failure is logged.
C18_FailedListingChangesNothing ==
    [][(wh.pc = "list" /\ faults' # faults)
       => /\ wh'.pc = "idle"
          /\ wh'.outcome = "raised"
          /\ wh'.returned = "none"
          /\ wh'.new_webhooks = <<>>
          /\ hooks' = hooks
          /\ hookSeq' = hookSeq
          /\ setting' = setting
          /\ <<"Shopify Unregister Webhooks Error", 0, 0>> \in errlog']_vars

\* register_webhooks raised on the listing while the remote held two
\* subscriptions of this deployment: both are still there.
C18_Witness ==
    /\ wh.op = "register" /\ wh.pc = "idle" /\ wh.outcome = "raised"
    /\ wh.returned = "none"
    /\ wh.created = {1, 2}
    /\ { h.id : h \in OwnHooks } = {1, 2}
    /\ hookSeq = 2

-----------------------------------------------------------------------------
(* C16: contacts are matched by phone.                                     *)

Last(S) == CHOOSE n \in S : \A m \in S : m <= n

\* The positions in the list of the customers with the phone, and of those
\* of them that have an email.
WithPhone(cs, phone) == { n \in 1..Len(cs) : cs[n].phone = phone }

WithPhoneAndEmail(cs, phone) == { n \in WithPhone(cs, phone) : cs[n].email # "" }

Phones(cs) == { cs[n].phone : n \in 1..Len(cs) } \ {""}

ContactsWith(phone) == { n \in 1..Len(Contact) : Contact[n].phone = phone }

\* A run over the list is over, nothing raised, and no run is under way.
UpsertedAll ==
    /\ run[1].pc = "done" /\ run[2].pc \in {"idle", "done"}
    /\ NoSaveFailed

\* The Contact carries the name of the customer: its first name, or the
\* customer name when it has none, and its last name.
NamedAfter(contact, c) ==
    /\ contact.first_name = IF c.first_name # "" THEN <<c.first_name>>
                            ELSE CustomerName(c)
    /\ contact.last_name = c.last_name

\* One Customer per Shopify customer id of the list, one Contact per
\* non-empty phone of the list, none for the customers without phone.
OneContactPerPhone(cs) ==
    /\ Len(Customer) = Cardinality({ cs[n].id : n \in 1..Len(cs) })
    /\ Len(Contact) = Cardinality(Phones(cs))
    /\ \A p \in Phones(cs) : Cardinality(ContactsWith(p)) = 1

\* C16 as stated: after the customers of a list are upserted there is one
\* Customer per Shopify id, one Contact per non-empty phone and none for a
\* customer without phone, and the Contact of a phone carries the name and
\* the email of the last customer of the list with that phone.
C16_ContactOfLastCustomer ==
    UpsertedAll
    => LET cs == run[1].customers
       IN /\ OneContactPerPhone(cs)
          /\ \A p \in Phones(cs) : \A n \in ContactsWith(p) :
                /\ NamedAfter(Contact[n], cs[Last(WithPhone(cs, p))])
                /\ Contact[n].email_id = cs[Last(WithPhone(cs, p))].email

\* C16 as amended: the same, where the email of the Contact is that of the
\* last customer with that phone that has an email, and none when no
\* customer with that phone has one.
C16_ContactByPhone ==
    UpsertedAll
    => LET cs == run[1].customers
       IN /\ OneContactPerPhone(cs)
          /\ \A p \in Phones(cs) : \A n \in ContactsWith(p) :
                /\ NamedAfter(Contact[n], cs[Last(WithPhone(cs, p))])
                /\ Contact[n].email_id
                     = IF WithPhoneAndEmail(cs, p) = {} THEN ""
                       ELSE cs[Last(WithPhoneAndEmail(cs, p))].email

\* Customers 1 and 2 share a phone: two Customers, one Contact, named and
\* mailed after customer 2.
C16_Witness ==
    /\ UpsertedAll
    /\ run[1].customers = <<CustA, CustB>>
    /\ Len(Customer) = 2 /\ Len(Contact) = 1
    /\ Contact[1].email_id = "bob@x"
    /\ Contact[1].first_name = <<"bob@x">>

-----------------------------------------------------------------------------
(* C17: an address save that raises.                                       *)

\* C17: when the save of one of a customer's addresses raises, the Customer
\* document saved just before stays as saved, no Address and no Contact is
\* written, the failure is logged for the record, and the batch loop is at
\* the next record of the list, or at the commit when the batch is over:
\* the customer's later addresses and contact are not upserted.
C17_AddressFailureKeepsCustomer ==
    [][\A r \in Runs :
          (run[r].pc = "addr_save" /\ run'[r].failed # run[r].failed)
          => /\ Customer' = Customer
             /\ run[r].doc \in 1..Len(Customer)
             /\ Customer[run[r].doc] = CustomerFields(Cur(r), run[r].doc)
             /\ Address' = Address
             /\ Contact' = Contact
             /\ run'[r].failed = run[r].failed \cup {Idx(r)}
             /\ <<"Shopify Address Import Error", r, Idx(r)>> \in errlog'
             /\ <<"Shopify Customer Import Error", r, Idx(r)>> \in errlog'
             /\ run'[r].passed = run[r].passed
             /\ IF run[r].i < BatchLen(r)
                THEN /\ run'[r].pc = "lookup"
                     /\ run'[r].processed + run'[r].i = Idx(r) + 1
                ELSE run'[r].pc = "commit"]_vars

\* The save of customer 1's second address raised: the Customer and its
\* first Address are stored, its Contact is not, and customer 3 was
\* upserted after it.
C17_Witness ==
    /\ run[1].pc = "done" /\ run[2].pc = "idle"
    /\ run[1].customers = <<CustA, CustC>>
    /\ run[1].failed = {1} /\ run[1].passed = <<1, 2>>
    /\ <<"Shopify Address Import Error", 1, 1>> \in errlog
    /\ Len(Customer) = 2
    /\ Len(Address) = 1 /\ Address[1].shopify_address_id = Str(10)
    /\ Contact = <<>>

-----------------------------------------------------------------------------
(* C19: the batches of sync_all_customers.                                 *)

\* The number of batches of at most BatchSize records in n records.
Batches(n) == (n + BatchSize - 1) \div BatchSize

\* C19: the batch loop passes the fetched customers to
\* create_or_update_customer one by one in fetch order, each once; it has
\* committed once per batch of at most BatchSize records it is through
\* with, and when it is over every customer has been passed and a commit
\* has followed the last one, whatever the number of customers.
C19_EveryCustomerOnceInBatches ==
    \A r \in Runs :
        LET rec == run[r]
            end == Min(rec.processed + BatchSize, Total(r))
        IN /\ rec.passed = Iota(Len(rec.passed))
           /\ Len(rec.passed) <= Total(r)
           /\ rec.processed = rec.commits * BatchSize
           /\ rec.pc = "batch" => Len(rec.passed) = Min(rec.processed, Total(r))
           /\ rec.pc \in {"lookup", "save", "addr_lookup", "addr_save",
                          "contact", "contact_save"}
              => /\ Idx(r) \in (rec.processed + 1)..end
                 /\ Len(rec.passed)
                      = IF rec.pc = "lookup" THEN Idx(r) - 1 ELSE Idx(r)
           /\ rec.pc = "commit" => Len(rec.passed) = end
           /\ rec.pc = "done"
              => /\ Len(rec.passed) = Total(r)
                 /\ rec.commits = Batches(Total(r))
                 /\ rec.processed >= Total(r)

\* Three customers in batches of two: a full batch and a batch of one, a
\* commit after each.
C19_Witness ==
    /\ fetch.fn = "sync"
    /\ run[1].pc = "done"
    /\ Total(1) = BatchSize + 1
    /\ run[1].passed = Iota(BatchSize + 1)
    /\ run[1].commits = 2

-----------------------------------------------------------------------------
(* C20: when the wrapped body runs.                                        *)

CallEnded == session.pc = "idle" /\ session.calls > 0

BodyReached == session.pc = "body" \/ session.ran > 0

CredentialsSet == session.in.shopify_url # "" /\ session.in.password # ""

Unusable == ~session.in.enable_shopify \/ ~CredentialsSet

BodyOnlyWhenAllowed ==
    BodyReached
    => \/ session.in.in_test
       \/ session.in.enable_shopify /\ CredentialsSet

NeverRan ==
    /\ ~BodyReached
    /\ CallEnded => session.outcome = "raised"

\* C20 as stated: the body of a wrapped function runs only in test mode or
\* for an enabled integration with shop URL and password set; when the
\* integration is disabled, or enabled with the URL or the password
\* missing, the wrapper raises and the body is never executed.
C20_DisabledAlwaysRaises ==
    session.calls > 0
    => /\ BodyOnlyWhenAllowed
       /\ Unusable => NeverRan

\* C20 as amended: the same, where the wrapper raises for a disabled
\* integration or missing credentials outside test mode; in test mode, and
\* with an enabled integration and both credentials outside it, the body
\* runs once, in the second case inside a session on the stored URL and
\* password.
C20_BodyOnlyWhenAllowed ==
    session.calls > 0
    => /\ BodyOnlyWhenAllowed
       /\ (Unusable /\ ~session.in.in_test) => NeverRan
       /\ (CallEnded /\ (session.in.in_test \/ ~Unusable))
          => session.ran = 1 /\ session.outcome = "returned"
       /\ session.pc = "body"
          => session.active
               = IF session.in.in_test THEN NoSession
                 ELSE <<session.in.shopify_url, "API_VERSION",
                        session.in.password>>

\* An enabled setting without password made the wrapper raise, after a call
\* in test mode ran its body.
C20_Witness ==
    /\ CallEnded /\ session.calls = 2
    /\ session.in.enable_shopify /\ ~session.in.in_test
    /\ session.in.shopify_url # "" /\ session.in.password = ""
    /\ session.outcome = "raised" /\ session.ran = 0
    /\ <<"Shopify Auth Error: Missing shopify_url or password", 0, 0>> \in errlog

=============================================================================
